---- MODULE Spec2Model ----
(***************************************************************************)
(* Model of MerkleTreeCodeReview.cpp: MerkleNode and StreamingMerkleTree   *)
(* (push_back, updateRoot, getSibling, generateProof).                     *)
(*                                                                         *)
(* Nodes live in a heap, one per tree instance; a pointer is an index into *)
(* the heap and Null is the null pointer.  A string is a sequence of       *)
(* integers; picosha2::hash256_hex_string is an injective function on      *)
(* strings whose results concatenate unambiguously.                        *)
(*                                                                         *)
(* Every node is held by std::shared_ptr.  The inner-node constructor      *)
(* builds left_ and right_ from raw pointers, so each child gets a second, *)
(* independent control block owned by the new node; when the last          *)
(* reference to an inner node goes away its destructor deletes children    *)
(* that are still in use.  That is undefined behaviour, and so are the     *)
(* dereferences of null pointers: the model takes each as a choice between *)
(* a fault and going on over memory that is stale or overwritten.          *)
(***************************************************************************)
EXTENDS Integers, Sequences, FiniteSets, TLC

\* ---------------------------------------------------------------- bounds
MaxLeaves == 7
MaxRecompute == 1
MaxPairLeaves == 7

\* Leaves inserted where insertions run between the steps of generateProof.
MaxWalkLeaves == 4

\* ------------------------------------------------------------- constants
Null == 0

Values == {1, 2}
Trees == {1, 2}

\* What a read through a null pointer can yield when it does not fault;
\* also what the memory of a destroyed node holds afterwards: << >> for the
\* old content (stale), anything else for overwritten content.
Garbage == {<< >>, <<-3>>}

\* The outcomes of undefined behaviour: the process faults, or the read
\* yields some garbage string and execution goes on.
UBOutcomes ==
  {[crash |-> TRUE, g |-> << >>]} \cup {[crash |-> FALSE, g |-> x] : x \in Garbage}

VARIABLES
  heap,        \* heap[t]: the MerkleNode objects of tree t, by address
  root_,       \* root_[t]
  frontier_,   \* frontier_[t]: std::map<int, node>
  dead,        \* dead[t]: the nodes whose destructor has run
  crashed,     \* the process has faulted
  vals,        \* vals[t]: the values pushed so far, in order (history)
  pushed,      \* pushed[t]: the leaf nodes pushed so far, in order (history)
  recomputes,  \* recomputes[t]: extra updateRoot calls made (history)
  lastOp,      \* the last operation run
  proofFor,    \* argument of the last generateProof call
  proof,       \* vector returned by the last generateProof call
  proofUB,     \* the last generateProof call ran into undefined behaviour
  walking,     \* a generateProof on tree 1 is in flight, between two steps
  walkCurrent, \* its local variable current
  before       \* tree 1 as it was before the insertion made during it (history)

walkVars == <<walking, walkCurrent, before>>

vars ==
  <<heap, root_, frontier_, dead, crashed, vals, pushed, recomputes, lastOp,
    proofFor, proof, proofUB, walking, walkCurrent, before>>

\* ------------------------------------------------------------ MerkleNode
\* picosha2::hash256_hex_string
Hash(s) == <<-1>> \o s \o <<-2>>

\* MerkleNode(const std::string &value)
LeafNode(v) ==
  [left_ |-> Null, right_ |-> Null, parent_ |-> Null, hash_ |-> Hash(<<v>>), value_ |-> v]

\* MerkleNode(MerkleNode *left, MerkleNode *right): right_->hash() with a
\* null right_ is undefined; g is what that read yields.
InnerNode(h, l, r, g) ==
  [left_ |-> l, right_ |-> r, parent_ |-> Null,
   hash_ |-> Hash(h[l].hash_ \o (IF r = Null THEN g ELSE h[r].hash_)),
   value_ |-> Null]

\* MerkleNode::set_parent
set_parent(h, n, p) == [h EXCEPT ![n].parent_ = p]

\* ---------------------------------------------------- StreamingMerkleTree
\* Mutant of MergeLoop: size += 1 in place of size *= 2.
RECURSIVE MergeLoopSizePlusOne(_, _, _, _)
MergeLoopSizePlusOne(h, f, combine, size) ==
  IF size \in DOMAIN f
  THEN LET temp == Len(h) + 1
           h1 == Append(h, InnerNode(h, combine, f[size], << >>))
           h2 == set_parent(h1, combine, temp)
           h3 == set_parent(h2, f[size], temp)
       IN MergeLoopSizePlusOne(h3, [k \in DOMAIN f \ {size} |-> f[k]], temp, size + 1)
  ELSE [heap |-> h, frontier_ |-> [k \in DOMAIN f \cup {size} |->
                                      IF k = size THEN combine ELSE f[k]]]

\* Mutant of MergeLoop: frontier_.erase(size) is missing.
RECURSIVE MergeLoopNoErase(_, _, _, _)
MergeLoopNoErase(h, f, combine, size) ==
  IF size \in DOMAIN f
  THEN LET temp == Len(h) + 1
           h1 == Append(h, InnerNode(h, combine, f[size], << >>))
           h2 == set_parent(h1, combine, temp)
           h3 == set_parent(h2, f[size], temp)
       IN IF size * 2 \in DOMAIN f
          THEN MergeLoopNoErase(h3, f, temp, size * 2)
          ELSE [heap |-> h3, frontier_ |-> [k \in DOMAIN f \cup {size * 2} |->
                                              IF k = size * 2 THEN temp ELSE f[k]]]
  ELSE [heap |-> h, frontier_ |-> [k \in DOMAIN f \cup {size} |->
                                      IF k = size THEN combine ELSE f[k]]]

\* Mutant of MergeLoop: combine->set_parent(temp) is missing.
RECURSIVE MergeLoopCarryUnlinked(_, _, _, _)
MergeLoopCarryUnlinked(h, f, combine, size) ==
  IF size \in DOMAIN f
  THEN LET temp == Len(h) + 1
           h1 == Append(h, InnerNode(h, combine, f[size], << >>))
           h3 == set_parent(h1, f[size], temp)
       IN MergeLoopCarryUnlinked(h3, [k \in DOMAIN f \ {size} |-> f[k]], temp, size * 2)
  ELSE [heap |-> h, frontier_ |-> [k \in DOMAIN f \cup {size} |->
                                      IF k = size THEN combine ELSE f[k]]]

\* The while loop of push_back followed by frontier_[size] = combine.
RECURSIVE MergeLoop(_, _, _, _)
MergeLoop(h, f, combine, size) ==
  IF size \in DOMAIN f
  THEN LET temp == Len(h) + 1
           h1 == Append(h, InnerNode(h, combine, f[size], << >>))
           h2 == set_parent(h1, combine, temp)
           h3 == set_parent(h2, f[size], temp)
       IN MergeLoop(h3, [k \in DOMAIN f \ {size} |-> f[k]], temp, size * 2)
  ELSE [heap |-> h, frontier_ |-> [k \in DOMAIN f \cup {size} |->
                                      IF k = size THEN combine ELSE f[k]]]

\* Iteration of frontier_ from begin() to end(): ascending keys.
RECURSIVE FrontierLevel(_)
FrontierLevel(f) ==
  IF DOMAIN f = {} THEN << >>
  ELSE LET k == CHOOSE x \in DOMAIN f : \A y \in DOMAIN f : x <= y
       IN <<f[k]>> \o FrontierLevel([j \in DOMAIN f \ {k} |-> f[j]])

\* The for loop of updateRoot over the pairs of one level, from (1-based)
\* position i; returns the heap and the next level built so far.
RECURSIVE PairLoop(_, _, _, _)
PairLoop(h, level, i, temp) ==
  IF i < Len(level)
  THEN LET hashed == Len(h) + 1
           h1 == Append(h, InnerNode(h, level[i], level[i + 1], << >>))
           h2 == set_parent(h1, level[i], hashed)
           h3 == set_parent(h2, level[i + 1], hashed)
       IN PairLoop(h3, level, i + 2, Append(temp, hashed))
  ELSE [heap |-> h, temp |-> temp]

\* The while loop of updateRoot.  o is the outcome of the undefined
\* behaviour met when a level of odd length > 1 builds a node on a null
\* right child.
RECURSIVE LevelLoop(_, _, _)
LevelLoop(h, level, o) ==
  IF Len(level) > 1
  THEN LET p == PairLoop(h, level, 1, << >>)
       IN IF Len(level) % 2 = 1
          THEN IF o.crash
               THEN [heap |-> p.heap, level |-> level, crashed |-> TRUE, ub |-> TRUE]
               ELSE LET last == level[Len(level)]
                        hashed == Len(p.heap) + 1
                        h1 == Append(p.heap, InnerNode(p.heap, last, Null, o.g))
                        h2 == set_parent(h1, last, hashed)
                    IN [LevelLoop(h2, Append(p.temp, hashed), o) EXCEPT !.ub = TRUE]
          ELSE LevelLoop(p.heap, p.temp, o)
  ELSE [heap |-> h, level |-> level, crashed |-> FALSE, ub |-> FALSE]

\* StreamingMerkleTree::updateRoot on a tree with heap h, frontier f and
\* root r.
updateRoot(h, f, r, o) ==
  LET l == LevelLoop(h, FrontierLevel(f), o)
  IN [heap |-> l.heap, frontier_ |-> f,
      root_ |-> IF l.crashed THEN r ELSE l.level[1],
      crashed |-> l.crashed, ub |-> l.ub]

\* Mutant of push_back: the call of updateRoot is missing.
push_backNoUpdateRoot(h, f, r, v, o) ==
  LET h0 == Append(h, LeafNode(v))
      m == MergeLoop(h0, f, Len(h0), 1)
  IN [heap |-> m.heap, frontier_ |-> m.frontier_, root_ |-> r,
      crashed |-> FALSE, ub |-> FALSE]

\* StreamingMerkleTree::push_back(node) for a node just built from value v.
push_back(h, f, r, v, o) ==
  LET h0 == Append(h, LeafNode(v))
      m == MergeLoop(h0, f, Len(h0), 1)
  IN updateRoot(m.heap, m.frontier_, r, o)

\* StreamingMerkleTree::getSibling
getSibling(h, node) ==
  LET parent == h[node].parent_
  IN IF parent # Null
     THEN IF h[parent].left_ = node /\ h[parent].right_ # Null
          THEN h[parent].right_
          ELSE IF h[parent].right_ = node /\ h[parent].left_ # Null
               THEN h[parent].left_
               ELSE Null
     ELSE Null


\* The walk of generateProof from current with the proof built so far.  A
\* null sibling or a null root_ is dereferenced (undefined): the read yields
\* g, and the walk ends where the next step would call through a null
\* current.
RECURSIVE ProofWalk(_, _, _, _, _, _)
ProofWalk(h, r, current, acc, ub, g) ==
  IF current # r
  THEN IF current = Null
       THEN [proof |-> acc, ub |-> TRUE]
       ELSE LET sibling == getSibling(h, current)
            IN IF sibling = Null
               THEN ProofWalk(h, r, h[current].parent_, Append(acc, g), TRUE, g)
               ELSE ProofWalk(h, r, h[current].parent_,
                              Append(acc, h[sibling].hash_), ub, g)
  ELSE IF r = Null
       THEN [proof |-> Append(acc, g), ub |-> TRUE]
       ELSE [proof |-> Append(acc, h[r].hash_), ub |-> ub]

\* StreamingMerkleTree::generateProof
generateProof(h, r, node, g) == ProofWalk(h, r, node, << >>, FALSE, g)

\* --------------------------------------------------------------- lifetime
Range(f) == {f[k] : k \in DOMAIN f}

\* The nodes of the subtree below n, following child links.
RECURSIVE Subtree(_, _)
Subtree(h, n) ==
  IF n = Null THEN {}
  ELSE {n} \cup Subtree(h, h[n].left_) \cup Subtree(h, h[n].right_)

\* Some shared_ptr made from a shared_ptr still refers to n: root_, a
\* frontier_ entry, the parent_ of a node that exists, or a local variable
\* of a generateProof in flight (held).
Referenced(h, f, r, held, d, n) ==
  \/ n = r
  \/ n \in Range(f)
  \/ n \in held
  \/ \E c \in (1..Len(h)) \ d : h[c].parent_ = n

\* The inner nodes whose last reference is gone (a leaf stays referenced by
\* the caller, who built it with make_shared and keeps the pointer).
Orphans(h, f, r, held, d) ==
  {n \in (1..Len(h)) \ d : h[n].value_ = Null /\ ~Referenced(h, f, r, held, d, n)}

\* The nodes destroyed once every node without reference is: ~MerkleNode
\* of an orphan releases left_ and right_, each the only owner of the
\* control block the constructor made from the raw pointer, which deletes
\* the child, and so on down; it releases parent_ as well.
RECURSIVE Destroyed(_, _, _, _, _)
Destroyed(h, f, r, held, d) ==
  LET o == Orphans(h, f, r, held, d)
  IN IF o = {} THEN d
     ELSE Destroyed(h, f, r, held, d \cup UNION {Subtree(h, n) : n \in o})

\* The memory of a destroyed node when it has been overwritten with g.
Wreck(g) ==
  [left_ |-> Null, right_ |-> Null, parent_ |-> Null, hash_ |-> g, value_ |-> Null]

\* The result u of push_back or updateRoot on a tree whose destroyed nodes
\* are d, the call having read or written the nodes in touched: the nodes
\* it destroys and what their memory holds next (g), and whether it met
\* undefined behaviour, be it in u, by touching a destroyed node or by
\* destroying nodes in use.
Settle(u, held, d, touched, g) ==
  LET d1 == Destroyed(u.heap, u.frontier_, u.root_, held, d)
  IN [heap |-> [n \in 1..Len(u.heap) |->
                  IF n \in d1 \ d /\ g # << >> THEN Wreck(g) ELSE u.heap[n]],
      frontier_ |-> u.frontier_,
      root_ |-> u.root_,
      dead |-> d1,
      ub |-> u.ub \/ touched \cap d # {} \/ d1 # d]

\* The frontier entries push_back merges away, and those updateRoot pairs.
Merged(f, f1) == {f[k] : k \in DOMAIN f \ DOMAIN f1}
Paired(f1) == IF Cardinality(DOMAIN f1) > 1 THEN Range(f1) ELSE {}

\* push_back and updateRoot with the lifetime of the nodes.
push_backSettled(h, f, r, held, d, v, o) ==
  LET u == push_back(h, f, r, v, o)
  IN Settle(u, held, d, Merged(f, u.frontier_) \cup Paired(u.frontier_), o.g)

updateRootSettled(h, f, r, d, o) ==
  Settle(updateRoot(h, f, r, o), {}, d, Paired(f), o.g)

\* The nodes generateProof reads on its walk from current: each node on
\* the parent chain, its parent and its sibling, and the root.
RECURSIVE WalkNodes(_, _, _)
WalkNodes(h, r, current) ==
  IF current = Null THEN {}
  ELSE IF current = r THEN {r}
  ELSE ({current, h[current].parent_, getSibling(h, current)} \ {Null})
         \cup WalkNodes(h, r, h[current].parent_)

\* ---------------------------------------------------------------- actions
\* The state after construction of the trees; the caller holds one leaf
\* node per tree that it never inserts.
Init ==
  /\ heap = [t \in Trees |-> <<LeafNode(1)>>]
  /\ root_ = [t \in Trees |-> Null]
  /\ frontier_ = [t \in Trees |-> << >>]
  /\ dead = [t \in Trees |-> {}]
  /\ crashed = FALSE
  /\ vals = [t \in Trees |-> << >>]
  /\ pushed = [t \in Trees |-> << >>]
  /\ recomputes = [t \in Trees |-> 0]
  /\ lastOp = "init"
  /\ proofFor = Null
  /\ proof = << >>
  /\ proofUB = FALSE
  /\ walking = FALSE
  /\ walkCurrent = Null
  /\ before = << >>

\* One outcome of undefined behaviour, for runs that meet none.
NoUB == [crash |-> FALSE, g |-> << >>]

\* Installs the result u of an operation on tree t.
Install(t, u) ==
  /\ heap' = [heap EXCEPT ![t] = u.heap]
  /\ frontier_' = [frontier_ EXCEPT ![t] = u.frontier_]
  /\ root_' = [root_ EXCEPT ![t] = u.root_]
  /\ dead' = [dead EXCEPT ![t] = u.dead]
  /\ crashed' = FALSE

\* The process faults in the middle of an operation: it is gone, and what
\* the operation had written so far with it.
Fault ==
  /\ crashed' = TRUE
  /\ UNCHANGED <<heap, frontier_, root_, dead>>

\* auto node = std::make_shared<MerkleNode>(v); tree->push_back(node);
PushBack(t, v, max) ==
  /\ ~crashed
  /\ Len(vals[t]) < max
  /\ IF push_backSettled(heap[t], frontier_[t], root_[t], {}, dead[t], v, NoUB).ub
     THEN \E o \in UBOutcomes :
            IF o.crash
            THEN Fault /\ UNCHANGED <<vals, pushed>>
            ELSE /\ Install(t, push_backSettled(heap[t], frontier_[t], root_[t],
                                                {}, dead[t], v, o))
                 /\ vals' = [vals EXCEPT ![t] = Append(@, v)]
                 /\ pushed' = [pushed EXCEPT ![t] = Append(@, Len(heap[t]) + 1)]
     ELSE /\ Install(t, push_backSettled(heap[t], frontier_[t], root_[t],
                                         {}, dead[t], v, NoUB))
          /\ vals' = [vals EXCEPT ![t] = Append(@, v)]
          /\ pushed' = [pushed EXCEPT ![t] = Append(@, Len(heap[t]) + 1)]
  /\ lastOp' = "push_back"
  /\ proofFor' = Null /\ proof' = << >> /\ proofUB' = FALSE
  /\ UNCHANGED <<recomputes, walkVars>>

\* updateRoot() called once more with no insertion in between.
UpdateRootAgain(t) ==
  /\ ~crashed
  /\ vals[t] # << >>
  /\ recomputes[t] < MaxRecompute
  /\ IF updateRootSettled(heap[t], frontier_[t], root_[t], dead[t], NoUB).ub
     THEN \E o \in UBOutcomes :
            IF o.crash
            THEN Fault
            ELSE Install(t, updateRootSettled(heap[t], frontier_[t], root_[t],
                                              dead[t], o))
     ELSE Install(t, updateRootSettled(heap[t], frontier_[t], root_[t],
                                       dead[t], NoUB))
  /\ recomputes' = [recomputes EXCEPT ![t] = @ + 1]
  /\ lastOp' = "updateRoot"
  /\ proofFor' = Null /\ proof' = << >> /\ proofUB' = FALSE
  /\ UNCHANGED <<vals, pushed, walkVars>>

\* tree->generateProof(node) for any node of the heap.  The state keeps the
\* last call only, so after a call the caller either repeats it or goes on
\* to another operation (a call for another node leads to the same states
\* as making that call first).
GenerateProof(t, node) ==
  /\ ~crashed
  /\ lastOp = "generateProof" => proofFor = node
  /\ IF \/ generateProof(heap[t], root_[t], node, << >>).ub
        \/ WalkNodes(heap[t], root_[t], node) \cap dead[t] # {}
     THEN \E o \in UBOutcomes :
            LET p == generateProof(heap[t], root_[t], node, o.g)
            IN /\ crashed' = o.crash
               /\ proof' = IF o.crash THEN << >> ELSE p.proof
               /\ proofUB' = TRUE
     ELSE /\ crashed' = FALSE
          /\ proof' = generateProof(heap[t], root_[t], node, << >>).proof
          /\ proofUB' = FALSE
  /\ proofFor' = node
  /\ lastOp' = "generateProof"
  /\ UNCHANGED <<heap, root_, frontier_, dead, vals, pushed, recomputes, walkVars>>

\* The public interface, as main uses it: insertions and proofs on one tree.
Next ==
  \/ \E v \in Values : PushBack(1, v, MaxLeaves)
  \/ \E node \in 1..Len(heap[1]) : GenerateProof(1, node)

Spec == Init /\ [][Next]_vars

\* Insertions, and updateRoot called again between them (it is a protected
\* virtual member: a derived class can call it).
NextRecompute ==
  \/ \E v \in Values : PushBack(1, v, MaxLeaves)
  \/ UpdateRootAgain(1)

SpecRecompute == Init /\ [][NextRecompute]_vars

\* Two tree instances that receive the same sequence of values: the second
\* is given, one at a time, the values the first has been given.
NextPair ==
  \/ \E v \in Values : PushBack(1, v, MaxPairLeaves)
  \/ /\ Len(vals[2]) < Len(vals[1])
     /\ PushBack(2, vals[1][Len(vals[2]) + 1], MaxPairLeaves)

SpecPair == Init /\ [][NextPair]_vars

\* ------------------------------------------- generateProof step by step
\* The local shared_ptr of the generateProof in flight.
Held == IF walking THEN {walkCurrent} \ {Null} ELSE {}

\* generateProof(node) is entered: auto current = node; and an empty proof.
WalkBegin(node) ==
  /\ ~crashed
  /\ ~walking
  /\ walking' = TRUE
  /\ walkCurrent' = node
  /\ before' = << >>
  /\ proofFor' = node
  /\ proof' = << >>
  /\ proofUB' = FALSE
  /\ lastOp' = "walk"
  /\ UNCHANGED <<heap, root_, frontier_, dead, crashed, vals, pushed, recomputes>>

\* The generateProof in flight returns acc.
WalkReturn(acc, ub) ==
  /\ proof' = acc
  /\ proofUB' = ub
  /\ walking' = FALSE
  /\ walkCurrent' = Null
  /\ lastOp' = "generateProof"
  /\ crashed' = FALSE
  /\ UNCHANGED <<heap, root_, frontier_, dead, before>>

\* One pass of the while loop of generateProof with outcome o of the
\* undefined behaviour it may meet: the sibling digest is appended and
\* current moves to its parent, which releases the node it was, and with
\* it every node that is left without reference.
WalkOn(o) ==
  LET h == heap[1]
      sibling == getSibling(h, walkCurrent)
      next == h[walkCurrent].parent_
      d1 == Destroyed(h, frontier_[1], root_[1], {next} \ {Null}, dead[1])
  IN /\ proof' = Append(proof, IF sibling = Null THEN o.g ELSE h[sibling].hash_)
     /\ walkCurrent' = next
     /\ heap' = [heap EXCEPT ![1] =
                   [n \in 1..Len(h) |-> IF n \in d1 \ dead[1] /\ o.g # << >>
                                         THEN Wreck(o.g) ELSE h[n]]]
     /\ dead' = [dead EXCEPT ![1] = d1]
     /\ crashed' = FALSE
     /\ UNCHANGED <<root_, frontier_, walking, before, lastOp>>

\* The pass of WalkOn meets undefined behaviour: it calls hash() on a null
\* sibling, reads a destroyed node, or destroys nodes the tree links.
WalkOnUB ==
  LET h == heap[1]
      sibling == getSibling(h, walkCurrent)
      next == h[walkCurrent].parent_
  IN \/ sibling = Null
     \/ ({walkCurrent, next, sibling} \ {Null}) \cap dead[1] # {}
     \/ Destroyed(h, frontier_[1], root_[1], {next} \ {Null}, dead[1]) # dead[1]

\* The generateProof in flight runs up to its next evaluation of the loop
\* condition, or returns.
WalkStep ==
  /\ ~crashed
  /\ walking
  /\ IF walkCurrent # root_[1]
     THEN IF walkCurrent = Null
          THEN \E o \in UBOutcomes :
                 IF o.crash THEN Fault /\ UNCHANGED <<proof, proofUB, walkVars, lastOp>>
                 ELSE WalkReturn(proof, TRUE)
          ELSE IF WalkOnUB
               THEN \E o \in UBOutcomes :
                      IF o.crash THEN Fault /\ UNCHANGED <<proof, proofUB, walkVars, lastOp>>
                      ELSE WalkOn(o) /\ proofUB' = TRUE
               ELSE WalkOn(NoUB) /\ UNCHANGED proofUB
     ELSE IF root_[1] = Null \/ root_[1] \in dead[1]
          THEN \E o \in UBOutcomes :
                 IF o.crash THEN Fault /\ UNCHANGED <<proof, proofUB, walkVars, lastOp>>
                 ELSE WalkReturn(Append(proof, IF root_[1] = Null THEN o.g
                                               ELSE heap[1][root_[1]].hash_), TRUE)
          ELSE WalkReturn(Append(proof, heap[1][root_[1]].hash_), proofUB)
  /\ UNCHANGED <<vals, pushed, recomputes, proofFor>>

\* push_back runs between two steps of the generateProof in flight.
InsertDuringWalk(v, max) ==
  /\ ~crashed
  /\ walking
  /\ before = << >>
  /\ Len(vals[1]) < max
  /\ IF push_backSettled(heap[1], frontier_[1], root_[1], Held, dead[1], v, NoUB).ub
     THEN \E o \in UBOutcomes :
            IF o.crash
            THEN Fault /\ UNCHANGED <<vals, pushed, before>>
            ELSE /\ Install(1, push_backSettled(heap[1], frontier_[1], root_[1],
                                                Held, dead[1], v, o))
                 /\ vals' = [vals EXCEPT ![1] = Append(@, v)]
                 /\ pushed' = [pushed EXCEPT ![1] = Append(@, Len(heap[1]) + 1)]
                 /\ before' = [heap |-> heap[1], root_ |-> root_[1]]
     ELSE /\ Install(1, push_backSettled(heap[1], frontier_[1], root_[1],
                                         Held, dead[1], v, NoUB))
          /\ vals' = [vals EXCEPT ![1] = Append(@, v)]
          /\ pushed' = [pushed EXCEPT ![1] = Append(@, Len(heap[1]) + 1)]
          /\ before' = [heap |-> heap[1], root_ |-> root_[1]]
  /\ UNCHANGED <<recomputes, lastOp, proofFor, proof, proofUB, walking, walkCurrent>>

\* Insertions and proofs on one tree with no serialisation by the caller:
\* an insertion can run between two steps of a generateProof.
NextWalk ==
  \/ \E v \in Values : ~walking /\ PushBack(1, v, MaxWalkLeaves)
  \/ \E node \in 1..Len(heap[1]) : WalkBegin(node)
  \/ WalkStep
  \/ \E v \in Values : InsertDuringWalk(v, MaxWalkLeaves)

SpecWalk == Init /\ [][NextWalk]_vars

\* ------------------------------------------------------- derived notions
Count(t) == Len(vals[t])

\* The leaf nodes pushed into tree t (node 1 is the leaf never inserted).
Inserted(t) == Range(pushed[t])

\* { 2^i : bit i of n is set }, p being the weight of n's lowest bit.
RECURSIVE SetBits(_, _)
SetBits(n, p) ==
  IF n = 0 THEN {}
  ELSE (IF n % 2 = 1 THEN {p} ELSE {}) \cup SetBits(n \div 2, 2 * p)

\* n is a leaf, or an inner node built from two present children.
RECURSIVE WellDefined(_, _)
WellDefined(h, n) ==
  \/ h[n].left_ = Null /\ h[n].right_ = Null /\ h[n].value_ # Null
  \/ /\ h[n].left_ # Null /\ h[n].right_ # Null
     /\ WellDefined(h, h[n].left_) /\ WellDefined(h, h[n].right_)

\* r is reached from n by following parent links.
RECURSIVE Reaches(_, _, _)
Reaches(h, n, r) ==
  /\ n # Null
  /\ r # Null
  /\ n = r \/ Reaches(h, h[n].parent_, r)

\* ------------------------------------------------------------------ C1
\* C1: after every insertion, with n >= 1 leaves inserted so far, the keys
\* present in the frontier are exactly the powers of two 2^i such that bit
\* i of n is set.
C1_FrontierKeysAreSetBits ==
  Count(1) >= 1 => DOMAIN frontier_[1] = SetBits(Count(1), 1)

\* Five leaves inserted: the frontier holds the keys 1 and 4.
C1_Witness ==
  /\ lastOp = "push_back"
  /\ Count(1) = 5
  /\ DOMAIN frontier_[1] = {1, 4}

\* ------------------------------------------------------------------ C2
\* C2: insertion has no error path: every insertion runs to completion and
\* leaves root_ set to a node with a well-defined digest (no node on the
\* way was hashed from an absent child).
C2_InsertionCompletes ==
  lastOp = "push_back" =>
    /\ ~crashed
    /\ root_[1] # Null
    /\ WellDefined(heap[1], root_[1])

\* ------------------------------------------------------------------ C3
\* C3: generateProof on a node from which root_ is not reached by parent
\* links ends in a not-found outcome: no absent sibling, parent or root is
\* dereferenced and no digest is returned.
C3_UnreachableIsNotFound ==
  (lastOp = "generateProof" /\ ~Reaches(heap[1], proofFor, root_[1])) =>
    /\ ~proofUB
    /\ ~crashed
    /\ proof = << >>

\* ------------------------------------------------------------------ C4
\* Folds digest acc of node cur upward with the digests p[i], p[i+1], ...,
\* each on the side its node occupies under the parent of cur; the last
\* element of p is not folded.  << >> when the parent chain ends early.
RECURSIVE FoldProof(_, _, _, _, _)
FoldProof(h, cur, acc, p, i) ==
  IF i >= Len(p) THEN acc
  ELSE LET par == h[cur].parent_
       IN IF par = Null THEN << >>
          ELSE FoldProof(h, par,
                         IF h[par].left_ = cur THEN Hash(acc \o p[i])
                                               ELSE Hash(p[i] \o acc),
                         p, i + 1)

\* The digests of the other child of the parent of n and of each of its
\* ancestors below r, in leaf-to-root order (<<-4>> marks an absent one).
RECURSIVE SiblingDigests(_, _, _)
SiblingDigests(h, n, r) ==
  IF n = r \/ h[n].parent_ = Null THEN << >>
  ELSE LET par == h[n].parent_
           other == IF h[par].left_ = n THEN h[par].right_ ELSE h[par].left_
       IN <<IF other = Null THEN <<-4>> ELSE h[other].hash_>>
            \o SiblingDigests(h, par, r)

\* p is a valid proof of leaf in the tree with heap h and root r.
ValidProof(h, r, leaf, p) ==
  /\ r # Null
  /\ p # << >>
  /\ p[Len(p)] = h[r].hash_
  /\ p = Append(SiblingDigests(h, leaf, r), h[r].hash_)
  /\ FoldProof(h, leaf, h[leaf].hash_, p, 1) = h[r].hash_

\* C4: for every leaf inserted so far, generateProof terminates and returns
\* a non-empty sequence: the sibling digests from the leaf up to below the
\* root, then the root digest; folding the leaf digest upward with them
\* yields the root digest.
C4_ProofValid ==
  (lastOp = "generateProof" /\ proofFor \in Inserted(1)) =>
    /\ ~proofUB
    /\ ~crashed
    /\ ValidProof(heap[1], root_[1], proofFor, proof)

\* ------------------------------------------------------------------ C5
\* The digest of the root of tree t (<< >> when there is no root).
RootDigest(t) == IF root_[t] = Null THEN << >> ELSE heap[t][root_[t]].hash_

\* C5: two tree instances that have received the same sequence of leaf
\* values have the same root digest and the same frontier keys.
C5_Deterministic ==
  (~crashed /\ vals[1] = vals[2]) =>
    /\ RootDigest(1) = RootDigest(2)
    /\ DOMAIN frontier_[1] = DOMAIN frontier_[2]

\* ------------------------------------------------------------------ C6
IsPow2(n) == SetBits(n, 1) = {n}

RECURSIVE Log2(_)
Log2(n) == IF n <= 1 THEN 0 ELSE 1 + Log2(n \div 2)

\* C6: when the number of inserted leaves is 2^d, generateProof on an
\* inserted leaf returns exactly d + 1 digests (3 digests for the first
\* leaf after 4 insertions).
C6_ProofLength ==
  (lastOp = "generateProof" /\ proofFor \in Inserted(1) /\ IsPow2(Count(1))) =>
    /\ ~proofUB
    /\ ~crashed
    /\ Len(proof) = Log2(Count(1)) + 1


MergedAway(t) ==
  UNION {Subtree(heap[t], frontier_[t][k]) \ {frontier_[t][k]} : k \in DOMAIN frontier_[t]}

RECURSIVE Perfect(_, _, _)
Perfect(h, n, k) ==
  IF k = 1
  THEN h[n].left_ = Null /\ h[n].right_ = Null
  ELSE /\ h[n].left_ # Null /\ h[n].right_ # Null
       /\ Perfect(h, h[n].left_, k \div 2)
       /\ Perfect(h, h[n].right_, k \div 2)

\* The leaves below n.
LeavesUnder(h, n) == {m \in Subtree(h, n) : h[m].left_ = Null /\ h[m].right_ = Null}

RECURSIVE SumOf(_)
SumOf(S) == IF S = {} THEN 0 ELSE LET x == CHOOSE y \in S : TRUE IN x + SumOf(S \ {x})

\* C8: each frontier entry at key k is the root of a perfect binary subtree
\* whose leaves are k distinct inserted leaves; every inserted leaf lies
\* under exactly one entry; the keys sum to the number of leaves inserted.
C8_FrontierSubtrees ==
  LET h == heap[1]
      f == frontier_[1]
  IN /\ \A k \in DOMAIN f :
          /\ Perfect(h, f[k], k)
          /\ Cardinality(LeavesUnder(h, f[k])) = k
          /\ LeavesUnder(h, f[k]) \subseteq Inserted(1)
     /\ \A l \in Inserted(1) :
          Cardinality({k \in DOMAIN f : l \in LeavesUnder(h, f[k])}) = 1
     /\ SumOf(DOMAIN f) = Count(1)


\* ------------------------------------------------------------------ C9
\* The proofs of all inserted leaves, as generateProof returns them.
AllProofs(t) ==
  [l \in Inserted(t) |-> generateProof(heap[t], root_[t], l, << >>)]

\* C9: a further updateRoot with no insertion in between completes, leaves
\* the frontier unchanged, yields a root with the same digest, and leaves
\* every proof as it was.
C9_RecomputeIdempotent ==
  [][lastOp' = "updateRoot" =>
       /\ ~crashed'
       /\ frontier_' = frontier_
       /\ RootDigest(1)' = RootDigest(1)
       /\ AllProofs(1)' = AllProofs(1)]_vars

\* ----------------------------------------------------------------- C10
\* C10: every completed insertion changes the root digest (the first one
\* from absent to present), whatever the values inserted.
C10_RootChanges ==
  [][(lastOp' = "push_back" /\ ~crashed') =>
       /\ root_'[1] # Null
       /\ RootDigest(1)' # RootDigest(1)]_vars

\* A second insertion of the same value has completed.
C10_Witness ==
  /\ lastOp = "push_back"
  /\ ~crashed
  /\ vals[1] = <<1, 1>>
  /\ root_[1] # Null

\* ----------------------------------------------------------------- C11
\* The fields of node n other than the parent link.
Content(h, n) ==
  [hash_ |-> h[n].hash_, value_ |-> h[n].value_, left_ |-> h[n].left_, right_ |-> h[n].right_]

\* C11: no operation changes the digest, the value or the child links of a
\* node once it is constructed; only the parent link is written later.
C11_NodeContentFrame ==
  [][\A n \in 1..Len(heap[1]) :
       /\ n \in 1..Len(heap'[1])
       /\ Content(heap'[1], n) = Content(heap[1], n)]_vars

\* ----------------------------------------------------------------- C12
\* The number of trailing 1 bits of k.
RECURSIVE TrailingOnes(_)
TrailingOnes(k) == IF k % 2 = 1 THEN 1 + TrailingOnes(k \div 2) ELSE 0

RECURSIVE Pow2(_)
Pow2(m) == IF m = 0 THEN 1 ELSE 2 * Pow2(m - 1)

\* C12: the n-th insertion removes the frontier entries at keys 1, 2, ...,
\* 2^(m-1), m the number of trailing 1 bits of n-1, and performs one merge
\* for each: the i-th merge makes a new node whose left child is the carry
\* (the new leaf, then the node of the merge before), whose right child is
\* the removed entry and whose digest is H(carry digest || entry digest),
\* and it is the parent of both (of each that the insertion leaves in
\* existence); the last carry is stored at key 2^m.
C12_BinaryCounterMerge ==
  [][(lastOp' = "push_back" /\ ~crashed') =>
       LET n == Count(1)'
           m == TrailingOnes(n - 1)
           leaf == Len(heap[1]) + 1
           temp(i) == leaf + i
       IN /\ DOMAIN frontier_[1] \ DOMAIN frontier_'[1] = {Pow2(i - 1) : i \in 1..m}
          /\ DOMAIN frontier_'[1] \ DOMAIN frontier_[1] = {Pow2(m)}
          /\ frontier_'[1][Pow2(m)] = temp(m)
          /\ heap'[1][leaf].value_ # Null
          /\ \A i \in 1..m :
               LET entry == frontier_[1][Pow2(i - 1)]
                   node == heap'[1][temp(i)]
               IN /\ node.left_ = temp(i - 1)
                  /\ node.right_ = entry
                  /\ node.hash_ = Hash(heap'[1][temp(i - 1)].hash_ \o heap[1][entry].hash_)
                  /\ \A c \in {temp(i - 1), entry} \ dead'[1] :
                       heap'[1][c].parent_ = temp(i)]_vars

\* The fourth insertion has completed with two merges; the node of the
\* first is the left child of the node of the second, which sits at key 4.
C12_Witness ==
  /\ lastOp = "push_back"
  /\ ~crashed
  /\ Count(1) = 4
  /\ DOMAIN frontier_[1] = {4}
  /\ LET top == frontier_[1][4]
         carry == heap[1][top].left_
     IN /\ carry \notin dead[1]
        /\ heap[1][carry].parent_ = top
        /\ heap[1][carry].left_ = pushed[1][4]

\* ----------------------------------------------------------------- C13
\* One pass of the reference pairing over a sequence of digests:
\* consecutive pairs are hashed, a lone last digest is carried up as it is.
RECURSIVE PairDigests(_)
PairDigests(ds) ==
  IF Len(ds) = 0 THEN << >>
  ELSE IF Len(ds) = 1 THEN ds
  ELSE <<Hash(ds[1] \o ds[2])>> \o PairDigests(SubSeq(ds, 3, Len(ds)))

\* The reference root digest of a non-empty sequence of digests.
RECURSIVE ReferenceRoot(_)
ReferenceRoot(ds) == IF Len(ds) = 1 THEN ds[1] ELSE ReferenceRoot(PairDigests(ds))

\* C13: after an insertion, a frontier of one entry makes that entry the
\* root and no node besides the leaf and the merge nodes is created;
\* otherwise the root digest is the reference value of the digests of the
\* frontier entries in ascending key order, and the entries of each
\* consecutive pair have the same new node as parent, the earlier as its
\* left and the later as its right child.
C13_RootRecomputation ==
  [][(lastOp' = "push_back" /\ ~crashed') =>
       LET hOld == heap[1]
           hNew == heap'[1]
           level == FrontierLevel(frontier_'[1])
           merges == TrailingOnes(Count(1)' - 1)
           digest(e) == IF e <= Len(hOld) THEN hOld[e].hash_ ELSE hNew[e].hash_
       IN IF Len(level) = 1
          THEN /\ root_'[1] = level[1]
               /\ Len(hNew) = Len(hOld) + 1 + merges
          ELSE /\ hNew[root_'[1]].hash_ = ReferenceRoot([i \in 1..Len(level) |-> digest(level[i])])
               /\ \A i \in 1..Len(level) - 1 :
                    (i % 2 = 1 /\ {level[i], level[i + 1]} \cap dead'[1] = {}) =>
                      LET pair == hNew[level[i]].parent_
                      IN /\ pair > Len(hOld) + 1 + merges
                         /\ hNew[level[i + 1]].parent_ = pair
                         /\ hNew[pair].left_ = level[i]
                         /\ hNew[pair].right_ = level[i + 1]]_vars

\* ----------------------------------------------------------------- C14
\* The nodes that were root_ after the earlier insertions: push_back and
\* updateRoot create the root last (or leave as root the node the merge
\* loop created last), so the root after insertion j is the node created
\* just before leaf j + 1.
PastRoots(t) == {pushed[t][j + 1] - 1 : j \in 1..Count(t) - 1}

\* C14: every node that was the root after an earlier insertion is reached
\* from some inserted leaf along the current parent links.
C14_HistoryReachable ==
  \A r \in PastRoots(1) : \E l \in Inserted(1) : Reaches(heap[1], l, r)

\* ----------------------------------------------------------------- C15
\* C15: generateProof leaves the frontier, the root and every node as they
\* were, and a call that repeats the call before it, for the same node with
\* nothing in between, returns the same sequence.
C15_ProofReadOnly ==
  [][lastOp' = "generateProof" =>
       /\ heap' = heap
       /\ root_' = root_
       /\ frontier_' = frontier_
       /\ (lastOp = "generateProof" /\ proofFor' = proofFor) => proof' = proof]_vars

\* ----------------------------------------------------------------- C16
\* C16 (serialised part): a generateProof for an inserted leaf during
\* which no insertion ran returns a valid proof of the tree.
C16_SerializedProofsValid ==
  (lastOp = "generateProof" /\ ~crashed /\ before = << >> /\ proofFor \in Inserted(1)) =>
    ValidProof(heap[1], root_[1], proofFor, proof)

\* C16 (interleaved part): the generateProof for the third leaf of a tree
\* of three leaves, the fourth insertion having run between two of its
\* steps, has returned a sequence that is a valid proof neither of the tree
\* before nor of the tree after that insertion.
C16_InterleavedInvalid ==
  /\ lastOp = "generateProof"
  /\ ~crashed
  /\ before # << >>
  /\ Count(1) = 4
  /\ proofFor = pushed[1][3]
  /\ ~ValidProof(before.heap, before.root_, proofFor, proof)
  /\ ~ValidProof(heap[1], root_[1], proofFor, proof)

\* ----------------------------------------------------------------- C17
\* The control blocks that own node n: the one make_shared created with
\* the node, and one for each left_ or right_ that a MerkleNode(left,
\* right) constructor initialised from the raw pointer to n.
ControlBlocks(h, n) ==
  1 + Cardinality({p \in 1..Len(h) : h[p].left_ = n})
    + Cardinality({p \in 1..Len(h) : h[p].right_ = n})

\* C17: every node is owned by at most one control block, and no node
\* owns, through its parent_ (a shared_ptr as left_ and right_ are), the
\* node that owns it as a child.
C17_ExclusiveOwnership ==
  \A n \in 1..Len(heap[1]) :
    /\ ControlBlocks(heap[1], n) <= 1
    /\ LET p == heap[1][n].parent_
       IN p # Null => n \notin {heap[1][p].left_, heap[1][p].right_}

\* ----------------------------------------------------------------- C18
\* C18: the root has no parent, and the parent link of every other node
\* below the root points to the node below the root whose left or right
\* child it is.
C18_LinkConsistency ==
  root_[1] # Null =>
    LET h == heap[1]
        tree == Subtree(h, root_[1])
    IN /\ h[root_[1]].parent_ = Null
       /\ \A n \in tree \ {root_[1]} :
            /\ h[n].parent_ \in tree
            /\ n \in {h[h[n].parent_].left_, h[h[n].parent_].right_}

\* ----------------------------------------------------------------- C19
\* The leaves below n, read from left to right.
RECURSIVE LeavesLeftToRight(_, _)
LeavesLeftToRight(h, n) ==
  IF n = Null THEN << >>
  ELSE IF h[n].left_ = Null /\ h[n].right_ = Null THEN <<n>>
  ELSE LeavesLeftToRight(h, h[n].left_) \o LeavesLeftToRight(h, h[n].right_)

\* s in reverse order.
Reverse(s) == [i \in 1..Len(s) |-> s[Len(s) + 1 - i]]

\* C19: the leaves below the root, read from left to right, are the
\* inserted leaf nodes in reverse order of insertion, and hold the inserted
\* values in that order.
C19_LeafOrder ==
  (root_[1] # Null /\ ~crashed) =>
    LET leaves == LeavesLeftToRight(heap[1], root_[1])
    IN /\ leaves = Reverse(pushed[1])
       /\ [i \in 1..Len(leaves) |-> heap[1][leaves[i]].value_] = Reverse(vals[1])

====
